---------------------------- MODULE Spec2Model ----------------------------
(* Model of lsst.verify.tasks.commonMetrics: TimingMetricTask and         *)
(* MemoryMetricTask, the two metadata-based metric tasks.                  *)
(*                                                                         *)
(* Python values are records [t, n, s, f]: t is the Python type, n the     *)
(* integer payload (an int's value, a bool's 0/1, a finite float's value   *)
(* counted in halves), s the characters of a str, f the class of a float   *)
(* ("finite", "inf", "-inf", "nan").  Every finite float used is a         *)
(* multiple of 1/2, so IEEE subtraction on them is exact.                  *)
EXTENDS Integers, Naturals, Sequences, FiniteSets, TLC

VARIABLES config, platform, pagesize, pc, task, metadata, data, outcome, log

vars == <<config, platform, pagesize, pc, task, metadata, data, outcome, log>>

(***************************************************************************)
(* Bounds                                                                  *)
(***************************************************************************)
\* ints range over -MaxNum..MaxNum, finite floats over -MaxNum/2..MaxNum/2
MaxNum == 2

(***************************************************************************)
(* Python values                                                           *)
(***************************************************************************)
None == [t |-> "NoneType", n |-> 0, s |-> <<>>, f |-> "-"]

PyIntVal(k) == [t |-> "int", n |-> k, s |-> <<>>, f |-> "-"]

PyBool(k) == [t |-> "bool", n |-> k, s |-> <<>>, f |-> "-"]

\* the float h/2
PyFloat(h) == [t |-> "float", n |-> h, s |-> <<>>, f |-> "finite"]

PyInf == [t |-> "float", n |-> 0, s |-> <<>>, f |-> "inf"]

PyNegInf == [t |-> "float", n |-> 0, s |-> <<>>, f |-> "-inf"]

PyNaN == [t |-> "float", n |-> 0, s |-> <<>>, f |-> "nan"]

PyStr(chars) == [t |-> "str", n |-> 0, s |-> chars, f |-> "-"]

\* a value of a type with neither arithmetic nor int() (a nested property set)
PyObject == [t |-> "object", n |-> 0, s |-> <<>>, f |-> "-"]

SampleInts == (-MaxNum .. MaxNum) \cup {1024}

SampleStrings ==
    { <<>>,
      <<"1">>,
      <<"1", "2">>,
      <<"-", "1">>,
      <<" ", "1", " ">>,
      <<"1", ".", "5">>,
      <<"a", "b", "c">> }

Ints == {PyIntVal(k) : k \in SampleInts}

Bools == {PyBool(0), PyBool(1)}

Floats == {PyFloat(h) : h \in -MaxNum .. MaxNum} \cup {PyInf, PyNegInf, PyNaN}

Strings == {PyStr(c) : c \in SampleStrings}

\* everything a metadata entry can hold; None stands for "no entry"
Present == Ints \cup Bools \cup Floats \cup Strings \cup {PyObject}

Values == Present \cup {None}

(***************************************************************************)
(* Python operators used by the tasks                                      *)
(***************************************************************************)
IsNumber(v) == v.t \in {"int", "bool", "float"}

\* a number other than inf, -inf and nan
Finite(v) == v.t = "int" \/ v.t = "bool" \/ (v.t = "float" /\ v.f = "finite")

\* a number's value in halves (finite numbers only)
Halves(v) == IF v.t = "float" THEN v.n ELSE 2 * v.n

\* float.__sub__ on two numbers of which at least one is a float
FloatSub(a, b) ==
    LET fa == IF a.t = "float" THEN a.f ELSE "finite"
        fb == IF b.t = "float" THEN b.f ELSE "finite"
    IN  IF fa = "nan" \/ fb = "nan" THEN PyNaN
        ELSE IF fa = "finite" /\ fb = "finite" THEN PyFloat(Halves(a) - Halves(b))
        ELSE IF fa = fb THEN PyNaN
        ELSE IF fa = "inf" \/ fb = "-inf" THEN PyInf
        ELSE PyNegInf

\* a - b: [exc |-> "" , v |-> difference] or [exc |-> "TypeError"]
PySub(a, b) ==
    IF IsNumber(a) /\ IsNumber(b)
    THEN IF a.t = "float" \/ b.t = "float"
         THEN [exc |-> "", v |-> FloatSub(a, b)]
         ELSE [exc |-> "", v |-> PyIntVal(a.n - b.n)]
    ELSE [exc |-> "TypeError", v |-> None]

Digits == <<"0", "1", "2", "3", "4", "5", "6", "7", "8", "9">>

IsDigit(c) == \E i \in 1 .. 10 : Digits[i] = c

DigitVal(c) == (CHOOSE i \in 1 .. 10 : Digits[i] = c) - 1

IsSpace(c) == c \in {" ", "\t", "\n"}

RECURSIVE LStrip(_)
LStrip(str) ==
    IF str # <<>> /\ IsSpace(Head(str)) THEN LStrip(Tail(str)) ELSE str

RECURSIVE RStrip(_)
RStrip(str) ==
    IF str # <<>> /\ IsSpace(str[Len(str)])
    THEN RStrip(SubSeq(str, 1, Len(str) - 1))
    ELSE str

RECURSIVE DigitsValue(_, _)
DigitsValue(str, acc) ==
    IF str = <<>> THEN acc
    ELSE DigitsValue(Tail(str), 10 * acc + DigitVal(Head(str)))

\* int(str): optional surrounding blanks, optional sign, one or more digits
ParseInt(str) ==
    LET core == RStrip(LStrip(str))
        signed == core # <<>> /\ Head(core) \in {"+", "-"}
        body == IF signed THEN Tail(core) ELSE core
        ok == body # <<>> /\ \A i \in 1 .. Len(body) : IsDigit(body[i])
    IN  IF ~ok THEN [exc |-> "ValueError", v |-> None]
        ELSE LET m == DigitsValue(body, 0)
             IN  [exc |-> "",
                  v |-> PyIntVal(IF signed /\ Head(core) = "-" THEN -m ELSE m)]

\* float.__int__: truncation towards zero
Trunc(h) == IF h >= 0 THEN h \div 2 ELSE -((-h) \div 2)

\* int(v)
PyInt(v) ==
    CASE v.t = "int" -> [exc |-> "", v |-> v]
      [] v.t = "bool" -> [exc |-> "", v |-> PyIntVal(v.n)]
      [] v.t = "float" ->
            IF v.f = "finite" THEN [exc |-> "", v |-> PyIntVal(Trunc(v.n))]
            ELSE IF v.f = "nan" THEN [exc |-> "ValueError", v |-> None]
            ELSE [exc |-> "OverflowError", v |-> None]
      [] v.t = "str" -> ParseInt(v.s)
      [] OTHER -> [exc |-> "TypeError", v |-> None]


(***************************************************************************)
(* Configuration, metadata and platform                                    *)
(***************************************************************************)
\* config.target values: "NotARealTask.run" and "NotARealTask.runDataRef"
Targets ==
    { <<"NotARealTask", ".", "run">>,
      <<"NotARealTask", ".", "runDataRef">> }

\* config.metric values: "verify.DummyTime" and "foo.bar.FooBarTime"
Metrics ==
    { <<"verify", ".", "DummyTime">>,
      <<"foo", ".", "bar", ".", "FooBarTime">> }

Configs == [target : Targets, metric : Metrics]

\* sys.platform values
Platforms ==
    { <<"d", "a", "r", "w", "i", "n">>,
      <<"s", "u", "n", "o", "s", "5">>,
      <<"s", "o", "l", "a", "r", "i", "s">>,
      <<"l", "i", "n", "u", "x">>,
      <<"w", "i", "n", "3", "2">> }

\* resource.getpagesize() values
PageSizes == {4096, 8192}

\* str.startswith
StartsWith(str, prefix) ==
    Len(str) >= Len(prefix) /\ SubSeq(str, 1, Len(prefix)) = prefix

\* the number of entries of a metadata bag
MaxBagSize == 3

Suffixes == {"StartCpuTime", "EndCpuTime", "EndMaxResidentSetSize"}

AllKeys == {t \o <<x>> : t \in Targets, x \in Suffixes}

BagValues == {PyIntVal(1), PyFloat(3), PyInf, PyStr(<<"1", ".", "5">>)}

NoEntries == [k \in {} |-> None]

\* run(None)
NoMetadata == [given |-> FALSE, entries |-> NoEntries]

Bags ==
    UNION { [K -> BagValues] :
            K \in {D \in SUBSET AllKeys : Cardinality(D) <= MaxBagSize} }

MetadataInputs == {NoMetadata} \cup {[given |-> TRUE, entries |-> b] : b \in Bags}

(***************************************************************************)
(* Collaborators: structured names, measurements, the metadata lookup      *)
(***************************************************************************)
RECURSIVE SplitDots(_, _, _)
SplitDots(str, cur, acc) ==
    IF str = <<>> THEN Append(acc, cur)
    ELSE IF Head(str) = "." THEN SplitDots(Tail(str), <<>>, Append(acc, cur))
    ELSE SplitDots(Tail(str), Append(cur, Head(str)), acc)

NoName == [package |-> <<>>, metric |-> <<>>]

\* Name(config.metric) as the output metric of a measurement: a fully
\* qualified metric name is "package.metric"; anything else is a TypeError
MetricName(str) ==
    LET parts == SplitDots(str, <<>>, <<>>)
    IN  IF Len(parts) = 2 /\ parts[1] # <<>> /\ parts[2] # <<>>
        THEN [exc |-> "", name |-> [package |-> parts[1], metric |-> parts[2]]]
        ELSE [exc |-> "TypeError", name |-> NoName]

\* v * unit, for a number v: a quantity holds its value as a float
ToFloat(v) == IF v.t = "float" THEN v ELSE PyFloat(2 * v.n)

Quantity(v, unit) == [value |-> ToFloat(v), unit |-> unit]

NoQuantity == [value |-> PyNaN, unit |-> ""]

\* the outcomes of a call
NotRun ==
    [kind |-> "NotRun", msg |-> "", metric_name |-> NoName,
     quantity |-> NoQuantity, estimator |-> ""]

ReturnNone ==
    [kind |-> "None", msg |-> "", metric_name |-> NoName,
     quantity |-> NoQuantity, estimator |-> ""]

Raise(exc, msg) ==
    [kind |-> exc, msg |-> msg, metric_name |-> NoName,
     quantity |-> NoQuantity, estimator |-> ""]

Measurement(name, quantity, estimator) ==
    [kind |-> "Measurement", msg |-> "", metric_name |-> name,
     quantity |-> quantity, estimator |-> estimator]

\* the value the metadata holds under exactly this key, None without one
Lookup(md, key) ==
    IF md.given /\ key \in DOMAIN md.entries THEN md.entries[key] ELSE None

\* MetadataMetricTask.run: read each key, hand the values to makeMeasurement
ExtractMetadata(md, keys) == [d \in DOMAIN keys |-> Lookup(md, keys[d])]

(***************************************************************************)
(* TimingMetricTask                                                        *)
(***************************************************************************)
\* faulty variant: the key base is written out instead of read from the config
TimingGetInputMetadataKeysFixed(cfg) ==
    LET keyBase == <<"NotARealTask", ".", "run">>
    IN  [StartTime |-> keyBase \o <<"StartCpuTime">>,
         EndTime |-> keyBase \o <<"EndCpuTime">>]

TimingGetInputMetadataKeys(cfg) ==
    LET keyBase == cfg.target
    IN  [StartTime |-> keyBase \o <<"StartCpuTime">>,
         EndTime |-> keyBase \o <<"EndCpuTime">>]

GetOutputMetricName(cfg) == MetricName(cfg.metric)

\* faulty variant: the measurement is built inside the try block, so the TypeError
\* of a bad metric name is reported as invalid metadata
TimingMeasureCaught(cfg, totalTime) ==
    LET name == MetricName(cfg.metric)
    IN  IF name.exc = "TypeError"
        THEN Raise("MetricComputationError", "Invalid metadata")
        ELSE Measurement(name.name, Quantity(totalTime, "s"),
                         "pipe.base.timeMethod")

\* the branch taken once the subtraction has succeeded
TimingMeasure(cfg, totalTime) ==
    LET name == GetOutputMetricName(cfg)
    IN  IF name.exc # "" THEN Raise(name.exc, "")
        ELSE Measurement(name.name, Quantity(totalTime, "s"),
                         "pipe.base.timeMethod")

\* faulty variant: "and" in place of "or" in the presence test
TimingMakeMeasurementBothPresent(cfg, timings) ==
    IF timings.StartTime # None /\ timings.EndTime # None
    THEN LET totalTime == PySub(timings.EndTime, timings.StartTime)
         IN  IF totalTime.exc = "TypeError"
             THEN Raise("MetricComputationError", "Invalid metadata")
             ELSE TimingMeasure(cfg, totalTime.v)
    ELSE ReturnNone

\* faulty variant: the operands of the subtraction are exchanged
TimingMakeMeasurementSwapped(cfg, timings) ==
    IF timings.StartTime # None \/ timings.EndTime # None
    THEN LET totalTime == PySub(timings.StartTime, timings.EndTime)
         IN  IF totalTime.exc = "TypeError"
             THEN Raise("MetricComputationError", "Invalid metadata")
             ELSE TimingMeasure(cfg, totalTime.v)
    ELSE ReturnNone

\* faulty variant: the except clause names ValueError, so the TypeError escapes
TimingMakeMeasurementValueError(cfg, timings) ==
    IF timings.StartTime # None \/ timings.EndTime # None
    THEN LET totalTime == PySub(timings.EndTime, timings.StartTime)
         IN  IF totalTime.exc = "ValueError"
             THEN Raise("MetricComputationError", "Invalid metadata")
             ELSE IF totalTime.exc # "" THEN Raise(totalTime.exc, "")
             ELSE TimingMeasure(cfg, totalTime.v)
    ELSE ReturnNone

\* faulty variant: a negative duration is rejected as invalid metadata
TimingMakeMeasurementOrdered(cfg, timings) ==
    IF timings.StartTime # None \/ timings.EndTime # None
    THEN LET totalTime == PySub(timings.EndTime, timings.StartTime)
         IN  IF totalTime.exc = "TypeError"
                \/ (Finite(totalTime.v) /\ Halves(totalTime.v) < 0)
             THEN Raise("MetricComputationError", "Invalid metadata")
             ELSE TimingMeasure(cfg, totalTime.v)
    ELSE ReturnNone

TimingMakeMeasurement(cfg, timings) ==
    IF timings.StartTime # None \/ timings.EndTime # None
    THEN LET totalTime == PySub(timings.EndTime, timings.StartTime)
         IN  IF totalTime.exc = "TypeError"
             THEN Raise("MetricComputationError", "Invalid metadata")
             ELSE TimingMeasure(cfg, totalTime.v)
    ELSE ReturnNone

TimingLog(cfg, timings) ==
    IF timings.StartTime # None \/ timings.EndTime # None
    THEN <<>>
    ELSE << [level |-> "info",
             msg |-> "Nothing to do: no timing information for %s found.",
             arg |-> cfg.target] >>

(***************************************************************************)
(* MemoryMetricTask                                                        *)
(***************************************************************************)
MemoryGetInputMetadataKeys(cfg) ==
    LET keyBase == cfg.target
    IN  [EndMemory |-> keyBase \o <<"EndMaxResidentSetSize">>]

\* faulty variant: the platform names are compared for equality, so 'sunos5' is
\* taken for a platform that counts in kibibytes
AddUnitsExactName(memory, plat, page) ==
    IF plat = <<"d", "a", "r", "w", "i", "n">>
    THEN Quantity(memory, "byte")
    ELSE IF plat = <<"s", "u", "n", "o", "s">>
            \/ plat = <<"s", "o", "l", "a", "r", "i", "s">>
         THEN Quantity(PyIntVal(memory.n * page), "byte")
         ELSE Quantity(memory, "KiB")

AddUnits(memory, plat, page) ==
    IF StartsWith(plat, <<"d", "a", "r", "w", "i", "n">>)
    THEN Quantity(memory, "byte")
    ELSE IF StartsWith(plat, <<"s", "u", "n", "o", "s">>)
            \/ StartsWith(plat, <<"s", "o", "l", "a", "r", "i", "s">>)
         THEN Quantity(PyIntVal(memory.n * page), "byte")
         ELSE Quantity(memory, "KiB")

\* the branch taken once int() has succeeded
MemoryMeasure(cfg, maxMemory, plat, page) ==
    LET name == GetOutputMetricName(cfg)
    IN  IF name.exc # "" THEN Raise(name.exc, "")
        ELSE Measurement(name.name, AddUnits(maxMemory, plat, page),
                         "pipe.base.timeMethod")

\* bool(v)
Truthy(v) ==
    CASE v.t = "NoneType" -> FALSE
      [] v.t \in {"int", "bool"} -> v.n # 0
      [] v.t = "float" -> ~(v.f = "finite" /\ v.n = 0)
      [] v.t = "str" -> v.s # <<>>
      [] OTHER -> TRUE

\* faulty variant: the value is tested for truth instead of against None
MemoryMakeMeasurementTruthy(cfg, memory, plat, page) ==
    IF Truthy(memory.EndMemory)
    THEN LET maxMemory == PyInt(memory.EndMemory)
         IN  IF maxMemory.exc \in {"ValueError", "TypeError"}
             THEN Raise("MetricComputationError", "Invalid metadata")
             ELSE IF maxMemory.exc # "" THEN Raise(maxMemory.exc, "")
             ELSE MemoryMeasure(cfg, maxMemory.v, plat, page)
    ELSE ReturnNone

MemoryMakeMeasurement(cfg, memory, plat, page) ==
    IF memory.EndMemory # None
    THEN LET maxMemory == PyInt(memory.EndMemory)
         IN  IF maxMemory.exc \in {"ValueError", "TypeError"}
             THEN Raise("MetricComputationError", "Invalid metadata")
             ELSE IF maxMemory.exc # "" THEN Raise(maxMemory.exc, "")
             ELSE MemoryMeasure(cfg, maxMemory.v, plat, page)
    ELSE ReturnNone

MemoryLog(cfg, memory) ==
    IF memory.EndMemory # None
    THEN <<>>
    ELSE << [level |-> "info",
             msg |-> "Nothing to do: no memory information for %s found.",
             arg |-> cfg.target] >>

(***************************************************************************)
(* The state machine: a task is constructed with its configuration on a    *)
(* platform; the driver calls it and collects the result.                  *)
(***************************************************************************)
NoData == [d \in {} |-> None]

Init ==
    /\ config \in Configs
    /\ platform \in Platforms
    /\ pagesize \in PageSizes
    /\ pc = "idle"
    /\ task = ""
    /\ metadata = NoMetadata
    /\ data = NoData
    /\ outcome = NotRun
    /\ log = <<>>

\* TimingMetricTask.run(metadata)
TimingRun ==
    /\ pc = "idle"
    /\ \E md \in MetadataInputs :
         LET timings == ExtractMetadata(md, TimingGetInputMetadataKeys(config))
         IN  /\ metadata' = md
             /\ data' = timings
             /\ outcome' = TimingMakeMeasurement(config, timings)
             /\ log' = TimingLog(config, timings)
    /\ task' = "timing"
    /\ pc' = "run"
    /\ UNCHANGED <<config, platform, pagesize>>

\* MemoryMetricTask.run(metadata)
MemoryRun ==
    /\ pc = "idle"
    /\ \E md \in MetadataInputs :
         LET memory == ExtractMetadata(md, MemoryGetInputMetadataKeys(config))
         IN  /\ metadata' = md
             /\ data' = memory
             /\ outcome' = MemoryMakeMeasurement(config, memory, platform, pagesize)
             /\ log' = MemoryLog(config, memory)
    /\ task' = "memory"
    /\ pc' = "run"
    /\ UNCHANGED <<config, platform, pagesize>>

\* TimingMetricTask.makeMeasurement(timings), called with any dictionary
TimingCall ==
    /\ pc = "idle"
    /\ \E start \in Values, end \in Values :
         LET timings == [StartTime |-> start, EndTime |-> end]
         IN  /\ data' = timings
             /\ outcome' = TimingMakeMeasurement(config, timings)
             /\ log' = TimingLog(config, timings)
    /\ task' = "timing"
    /\ pc' = "makeMeasurement"
    /\ UNCHANGED <<config, platform, pagesize, metadata>>

\* MemoryMetricTask.makeMeasurement(memory), called with any dictionary
MemoryCall ==
    /\ pc = "idle"
    /\ \E value \in Values :
         LET memory == [EndMemory |-> value]
         IN  /\ data' = memory
             /\ outcome' = MemoryMakeMeasurement(config, memory, platform, pagesize)
             /\ log' = MemoryLog(config, memory)
    /\ task' = "memory"
    /\ pc' = "makeMeasurement"
    /\ UNCHANGED <<config, platform, pagesize, metadata>>

\* the driver takes the result; the task keeps nothing from the call
Collect ==
    /\ pc # "idle"
    /\ pc' = "idle"
    /\ task' = ""
    /\ metadata' = NoMetadata
    /\ data' = NoData
    /\ outcome' = NotRun
    /\ log' = <<>>
    /\ UNCHANGED <<config, platform, pagesize>>

Next == TimingRun \/ MemoryRun \/ TimingCall \/ MemoryCall \/ Collect

Spec == Init /\ [][Next]_vars

(***************************************************************************)
(* Vocabulary of the properties.  These classify the raw values by their   *)
(* Python type and literal form, without running the tasks' operators.     *)
(***************************************************************************)
Returned == pc # "idle"

ValidMetric == config.metric = <<"verify", ".", "DummyTime">>

ParsedMetricName == [package |-> <<"verify">>, metric |-> <<"DummyTime">>]

Numeric(v) == v.t = "int" \/ v.t = "bool" \/ v.t = "float"

\* the strings of SampleStrings that are integer literals
IntLiterals == {<<"1">>, <<"1", "2">>, <<"-", "1">>, <<" ", "1", " ">>}

ConvertibleToInt(v) == Finite(v) \/ (v.t = "str" /\ v.s \in IntLiterals)

TimingPresent == data.StartTime # None /\ data.EndTime # None

TimingAbsent == data.StartTime = None /\ data.EndTime = None

TimingPartial == ~TimingPresent /\ ~TimingAbsent

TimingWellTyped == Numeric(data.StartTime) /\ Numeric(data.EndTime)

MemoryWellTyped == ConvertibleToInt(data.EndMemory)

\* all required raw values are present and well-typed
WellTyped == IF task = "timing" THEN TimingWellTyped ELSE MemoryWellTyped

\* no required raw value is present
Absent == IF task = "timing" THEN TimingAbsent ELSE data.EndMemory = None

\* the metadata holds nothing under target + suffix, for every suffix
NoKeyOfTarget ==
    \A x \in {"StartCpuTime", "EndCpuTime", "EndMaxResidentSetSize"} :
        ~metadata.given \/ (config.target \o <<x>>) \notin DOMAIN metadata.entries

(***************************************************************************)
(* C1                                                                      *)
(***************************************************************************)
\* C1 as stated: with a metric name that resolves, makeMeasurement (of
\* either task) produces a measurement iff all required raw values are
\* present and well-typed, and a timestamp pair with exactly one side
\* present yields None, without an error.
C1_AsStated ==
    (Returned /\ ValidMetric) =>
        /\ (outcome.kind = "Measurement") <=> WellTyped
        /\ (task = "timing" /\ TimingPartial) => outcome.kind = "None"

\* C1, amended: with a metric name that resolves, makeMeasurement (of
\* either task) produces a measurement iff all required raw values are
\* present and well-typed; a timestamp pair with exactly one side present
\* yields no measurement and raises MetricComputationError.
C1_MeasurementIffWellTyped ==
    (Returned /\ ValidMetric) =>
        /\ (outcome.kind = "Measurement") <=> WellTyped
        /\ (task = "timing" /\ TimingPartial) =>
               outcome.kind = "MetricComputationError"

C1_Witness ==
    /\ Returned /\ ValidMetric /\ task = "timing"
    /\ data.StartTime = None /\ data.EndTime = PyFloat(1)
    /\ outcome.kind = "MetricComputationError"

(***************************************************************************)
(* C2                                                                      *)
(***************************************************************************)
\* C2: running TimingMetricTask on metadata with exactly one of StartTime
\* and EndTime present raises MetricComputationError: no measurement, no
\* None, no TypeError.
C2_PartialRaises ==
    (pc = "run" /\ task = "timing" /\ TimingPartial) =>
        outcome.kind = "MetricComputationError"

C2_Witness ==
    /\ pc = "run" /\ task = "timing"
    /\ data.StartTime = None /\ data.EndTime # None
    /\ outcome.kind = "MetricComputationError"

(***************************************************************************)
(* C3                                                                      *)
(***************************************************************************)
\* EndTime >= StartTime on numbers, nan comparing false
AtLeast(e, s) ==
    /\ Numeric(e) /\ Numeric(s)
    /\ ~(e.t = "float" /\ e.f = "nan") /\ ~(s.t = "float" /\ s.f = "nan")
    /\ \/ Finite(e) /\ Finite(s) /\ Halves(e) >= Halves(s)
       \/ ~Finite(e) /\ e.f = "inf"
       \/ ~Finite(s) /\ s.f = "-inf"

\* EndTime - StartTime in IEEE arithmetic, for AtLeast(e, s)
Difference(e, s) ==
    IF Finite(e) /\ Finite(s) THEN PyFloat(Halves(e) - Halves(s))
    ELSE IF ~Finite(e) /\ ~Finite(s) /\ e.f = s.f THEN PyNaN
    ELSE PyInf

\* C3: for numeric StartTime and EndTime with EndTime >= StartTime (and a
\* metric name that resolves), TimingMetricTask.makeMeasurement returns a
\* measurement of exactly EndTime - StartTime seconds, named by the parsed
\* config.metric and noting the estimator 'pipe.base.timeMethod'.
C3_Duration ==
    (Returned /\ task = "timing" /\ ValidMetric
        /\ AtLeast(data.EndTime, data.StartTime)) =>
        /\ outcome.kind = "Measurement"
        /\ outcome.quantity.value = Difference(data.EndTime, data.StartTime)
        /\ outcome.quantity.unit = "s"
        /\ outcome.metric_name = ParsedMetricName
        /\ outcome.estimator = "pipe.base.timeMethod"

C3_Witness ==
    /\ Returned /\ task = "timing" /\ ValidMetric
    /\ data.StartTime = PyFloat(-1) /\ data.EndTime = PyIntVal(2)
    /\ outcome.kind = "Measurement"
    /\ outcome.quantity = [value |-> PyFloat(5), unit |-> "s"]

(***************************************************************************)
(* C4                                                                      *)
(***************************************************************************)
\* C4: when either task is run on no metadata, or on metadata holding
\* nothing under target + 'StartCpuTime' / 'EndCpuTime' /
\* 'EndMaxResidentSetSize', the result is None and nothing is raised,
\* whatever else the metadata holds.
C4_NoKeysNoMeasurement ==
    (pc = "run" /\ NoKeyOfTarget) => outcome = ReturnNone

\* the metadata is full of another target's entries
C4_Witness ==
    /\ pc = "run" /\ NoKeyOfTarget
    /\ metadata.given /\ Cardinality(DOMAIN metadata.entries) = 3
    /\ \E k \in DOMAIN metadata.entries : metadata.entries[k] = PyFloat(3)
    /\ outcome = ReturnNone

(***************************************************************************)
(* C5                                                                      *)
(***************************************************************************)
\* C5: whenever MemoryMetricTask finds an EndMemory value that is present
\* but not convertible to an integer, the outcome is MetricComputationError:
\* no other exception and no measurement.
C5_NotConvertibleRaises ==
    (Returned /\ task = "memory" /\ data.EndMemory # None
        /\ ~ConvertibleToInt(data.EndMemory)) =>
        outcome.kind = "MetricComputationError"

(***************************************************************************)
(* C6                                                                      *)
(***************************************************************************)
\* C6: running TimingMetricTask on metadata where StartTime and EndTime are
\* both present and at least one is not a number raises
\* MetricComputationError('Invalid metadata').
C6_BadlyTypedRaises ==
    (pc = "run" /\ task = "timing" /\ TimingPresent /\ ~TimingWellTyped) =>
        outcome = Raise("MetricComputationError", "Invalid metadata")

C6_Witness ==
    /\ pc = "run" /\ task = "timing"
    /\ data.StartTime = PyFloat(3)
    /\ data.EndTime = PyStr(<<"1", ".", "5">>)
    /\ outcome.kind = "MetricComputationError"

(***************************************************************************)
(* C7                                                                      *)
(***************************************************************************)
BytesPlatforms == { <<"d", "a", "r", "w", "i", "n">> }

PagesPlatforms ==
    { <<"s", "u", "n", "o", "s", "5">>, <<"s", "o", "l", "a", "r", "i", "s">> }

\* a quantity of memory in bytes (its value is a whole number)
InBytes(q) == (q.value.n \div 2) * (IF q.unit = "KiB" THEN 1024 ELSE 1)

\* C7: MemoryMetricTask turns a raw integer v into v bytes on darwin, into
\* v * page-size bytes on sunos/solaris and into v KiB (v * 1024 bytes) on
\* every other platform; raw 1024 is 1,048,576 bytes by default and 1024
\* bytes on darwin.
C7_Units ==
    (Returned /\ task = "memory" /\ ValidMetric /\ data.EndMemory.t = "int") =>
        LET v == data.EndMemory.n
            q == outcome.quantity
        IN  /\ outcome.kind = "Measurement"
            /\ q.value.t = "float" /\ q.value.f = "finite"
            /\ platform \in BytesPlatforms =>
                   q.unit = "byte" /\ InBytes(q) = v
            /\ platform \in PagesPlatforms =>
                   q.unit = "byte" /\ InBytes(q) = v * pagesize
            /\ platform \notin (BytesPlatforms \cup PagesPlatforms) =>
                   /\ q.unit = "KiB" /\ q.value = PyFloat(2 * v)
                   /\ InBytes(q) = v * 1024
                   /\ v = 1024 => InBytes(q) = 1048576
            /\ (platform \in BytesPlatforms /\ v = 1024) => InBytes(q) = 1024

C7_Witness ==
    /\ Returned /\ task = "memory" /\ ValidMetric
    /\ data.EndMemory = PyIntVal(1024)
    /\ platform = <<"l", "i", "n", "u", "x">>
    /\ outcome.kind = "Measurement"
    /\ outcome.quantity = [value |-> PyFloat(2048), unit |-> "KiB"]

(***************************************************************************)
(* C8                                                                      *)
(***************************************************************************)
\* C8: when either task is run on present, well-typed values with a
\* config.metric that is no valid metric, a TypeError escapes, not a
\* MetricComputationError; and a MetricComputationError means the values
\* were not all present and well-typed.
C8_Misconfiguration ==
    pc = "run" =>
        /\ (WellTyped /\ ~ValidMetric) => outcome = Raise("TypeError", "")
        /\ outcome.kind = "MetricComputationError" => ~WellTyped

C8_Witness ==
    /\ pc = "run" /\ task = "timing" /\ ~ValidMetric
    /\ data.StartTime = PyIntVal(1) /\ data.EndTime = PyFloat(3)
    /\ outcome.kind = "TypeError"

(***************************************************************************)
(* C9                                                                      *)
(***************************************************************************)
\* C9: with a config.metric that is no valid metric, makeMeasurement (of
\* either task) still returns None on absent data and raises
\* MetricComputationError on malformed data; the TypeError occurs only
\* for present, well-typed values.
C9_DataDecidedFirst ==
    (Returned /\ ~ValidMetric) =>
        /\ Absent => outcome.kind = "None"
        /\ (~Absent /\ ~WellTyped) => outcome.kind = "MetricComputationError"
        /\ outcome.kind = "TypeError" => WellTyped

=============================================================================
